---- MODULE Spec2Model ----
(***************************************************************************)
(* culper-lib: the vault (src/vault/mod.rs) and the configuration reader   *)
(* (src/config/mod.rs).                                                    *)
(*                                                                         *)
(* Text is a sequence of one-character strings, a byte sequence a sequence *)
(* of numbers in 0..255, a Rust String of ASCII text the sequence of its   *)
(* code points.  A Result is [ok |-> TRUE, val |-> v] or                   *)
(* [ok |-> FALSE, err |-> e].                                              *)
(***************************************************************************)
EXTENDS Integers, Sequences, FiniteSets

\* the vault: the value a caller holds and how it came to hold it
VARIABLES cur, lastOp, arg, fn, calls, rendered, origin, viaText, ops,
          allowTrailingBits

\* the ConfigReader, the file at its path, and the last operation on them
VARIABLES path, config, file, writes, confOp, confArg, confRes

vaultVars == <<cur, lastOp, arg, fn, calls, rendered, origin, viaText, ops,
               allowTrailingBits>>

confVars == <<path, config, file, writes, confOp, confArg, confRes>>

vars == <<vaultVars, confVars>>

----------------------------------------------------------------------------
(* Bounds *)

\* longest plaintext / secret byte sequence a caller constructs
MaxSecretLen == 3
\* longest third field of a wire text a caller supplies
MaxFieldLen == 4
\* most operations a caller applies to one value before dropping it
MaxOps == 4
\* most targets a configuration holds
MaxTargets == 2
\* most times the file at the path is written (by create or write)
MaxWrites == 2

----------------------------------------------------------------------------
(* Results *)

Ok(v) == [ok |-> TRUE, val |-> v]

Err(e) == [ok |-> FALSE, err |-> e]

\* the error of decode(..).context("Failed to decode base64 payload")
Base64DecodeError == "Failed to decode base64 payload"

\* format_err!("Unknown encryption format given: {}", value)
UnknownFormat == "Unknown encryption format given"

\* format_err!("Could not parse string into Culper vault.")
MalformedEnvelope == "Could not parse string into Culper vault."

\* the error a caller's transform returns
TransformFailure == "transform failed"

----------------------------------------------------------------------------
(* EncryptionFormat *)

EncryptionFormat == {"GPG_KEY"}

GPG_KEY_STR == <<"G", "P", "G", "_", "K", "E", "Y">>

as_str(self) == CASE self = "GPG_KEY" -> GPG_KEY_STR

from_str_lenient(value) ==
    IF value \in {GPG_KEY_STR, <<"g", "p", "g", "_", "k", "e", "y">>,
                  <<" ">> \o GPG_KEY_STR}
    THEN Ok("GPG_KEY")
    ELSE Err(UnknownFormat)

from_str(value) ==
    IF value = GPG_KEY_STR THEN Ok("GPG_KEY") ELSE Err(UnknownFormat)

----------------------------------------------------------------------------
(* base64: encode and decode of the base64 crate, standard alphabet *)

Alphabet ==
    <<"A", "B", "C", "D", "E", "F", "G", "H", "I", "J", "K", "L", "M",
      "N", "O", "P", "Q", "R", "S", "T", "U", "V", "W", "X", "Y", "Z",
      "a", "b", "c", "d", "e", "f", "g", "h", "i", "j", "k", "l", "m",
      "n", "o", "p", "q", "r", "s", "t", "u", "v", "w", "x", "y", "z",
      "0", "1", "2", "3", "4", "5", "6", "7", "8", "9", "+", "/">>

AlphabetChars == {Alphabet[i] : i \in DOMAIN Alphabet}

Sym(n) == Alphabet[n + 1]

Morsel(c) == (CHOOSE i \in DOMAIN Alphabet : Alphabet[i] = c) - 1

RECURSIVE encode(_)
encode(bytes) ==
    LET n == Len(bytes)
    IN  IF n = 0 THEN <<>>
        ELSE IF n = 1 THEN
            <<Sym(bytes[1] \div 4), Sym((bytes[1] % 4) * 16), "=", "=">>
        ELSE IF n = 2 THEN
            <<Sym(bytes[1] \div 4),
              Sym((bytes[1] % 4) * 16 + bytes[2] \div 16),
              Sym((bytes[2] % 16) * 4), "=">>
        ELSE
            <<Sym(bytes[1] \div 4),
              Sym((bytes[1] % 4) * 16 + bytes[2] \div 16),
              Sym((bytes[2] % 16) * 4 + bytes[3] \div 64),
              Sym(bytes[3] % 64)>> \o encode(SubSeq(bytes, 4, n))

\* the number of '=' that end the text
RECURSIVE PaddingLen(_)
PaddingLen(text) ==
    IF Len(text) > 0 /\ text[Len(text)] = "="
    THEN 1 + PaddingLen(SubSeq(text, 1, Len(text) - 1))
    ELSE 0

\* the bytes of a sequence of morsels whose length is not 1 modulo 4
RECURSIVE DecodeMorsels(_)
DecodeMorsels(m) ==
    LET n == Len(m)
    IN  IF n < 2 THEN <<>>
        ELSE IF n = 2 THEN <<m[1] * 4 + m[2] \div 16>>
        ELSE IF n = 3 THEN
            <<m[1] * 4 + m[2] \div 16, (m[2] % 16) * 16 + m[3] \div 4>>
        ELSE
            <<m[1] * 4 + m[2] \div 16, (m[2] % 16) * 16 + m[3] \div 4,
              (m[3] % 4) * 64 + m[4]>> \o DecodeMorsels(SubSeq(m, 5, n))

\* the bits of the last morsel that reach no output byte
TrailingBits(m) ==
    LET n == Len(m)
    IN  IF n % 4 = 2 THEN m[n] % 16
        ELSE IF n % 4 = 3 THEN m[n] % 4
        ELSE 0

\* base64::decode, the crate's top-level function with its STANDARD
\* configuration, as the releases that have it beside the failure crate
\* (before 0.20) decode: a '=' is accepted only in the run that ends the
\* text and only at the third or fourth place of a quad; fewer '=' than the
\* canonical padding, or none, are accepted ("Zg", "Zg=" and "Zg==" all
\* decode to one byte).  Whether non-zero trailing bits are an error
\* (InvalidLastSymbol, from 0.10 on) depends on the release: allowTrailing.
decode(text, allowTrailing) ==
    LET pad     == PaddingLen(text)
        nsym    == Len(text) - pad
        symbols == SubSeq(text, 1, nsym)
        morsels == [i \in DOMAIN symbols |-> Morsel(symbols[i])]
    IN  IF \E i \in DOMAIN symbols : symbols[i] \notin AlphabetChars
        THEN Err("InvalidByte")
        ELSE IF \E i \in (nsym + 1)..Len(text) : (i - 1) % 4 < 2
        THEN Err("InvalidByte")
        ELSE IF nsym % 4 = 1 THEN Err("InvalidLength")
        ELSE IF ~allowTrailing /\ TrailingBits(morsels) # 0
        THEN Err("InvalidLastSymbol")
        ELSE Ok(DecodeMorsels(morsels))

----------------------------------------------------------------------------
(* Vaults *)

UnsealedVault(plain_secret, format) ==
    [kind |-> "unsealed", plain_secret |-> plain_secret, format |-> format]

SealedVault(secret, format) ==
    [kind |-> "sealed", secret |-> secret, format |-> format]

Text(t) == [kind |-> "text", text |-> t]

Format(t) == [kind |-> "format", format |-> t]

Failed(e) == [kind |-> "err", error |-> e]

Nothing == [kind |-> "none"]

CULPER == <<"C", "U", "L", "P", "E", "R">>

to_string_swapped(self) ==
    CULPER \o <<".">> \o encode(self.secret) \o <<".">> \o as_str(self.format)

\* format!("CULPER.{}.{}", self.format.as_str(), encode(&self.secret))
to_string(self) ==
    CULPER \o <<".">> \o as_str(self.format) \o <<".">> \o encode(self.secret)

\* value.split('.').collect()
RECURSIVE split(_)
split(value) ==
    IF \E i \in DOMAIN value : value[i] = "."
    THEN LET i == CHOOSE j \in DOMAIN value :
                    /\ value[j] = "."
                    /\ \A k \in 1..(j - 1) : value[k] # "."
         IN  <<SubSeq(value, 1, i - 1)>>
                 \o split(SubSeq(value, i + 1, Len(value)))
    ELSE <<value>>

parse_first_three(value, allowTrailing) ==
    LET value_list == split(value)
    IN  IF Len(value_list) >= 3 /\ value_list[1] = CULPER
        THEN LET secret == decode(value_list[3], allowTrailing)
                 format == from_str(value_list[2])
             IN  IF ~secret.ok THEN Err(Base64DecodeError)
                 ELSE IF ~format.ok THEN Err(format.err)
                 ELSE Ok(SealedVault(secret.val, format.val))
        ELSE Err(MalformedEnvelope)

parse_unknown_as_malformed(value, allowTrailing) ==
    LET value_list == split(value)
    IN  IF Len(value_list) = 3 /\ value_list[1] = CULPER
        THEN LET secret == decode(value_list[3], allowTrailing)
                 format == from_str(value_list[2])
             IN  IF ~secret.ok THEN Err(Base64DecodeError)
                 ELSE IF ~format.ok THEN Err(MalformedEnvelope)
                 ELSE Ok(SealedVault(secret.val, format.val))
        ELSE Err(MalformedEnvelope)

\* The arguments of SealedVault::new are evaluated in order: the payload is
\* decoded, and its error returned, before the format is parsed.
parse(value, allowTrailing) ==
    LET value_list == split(value)
    IN  IF Len(value_list) = 3 /\ value_list[1] = CULPER
        THEN LET secret == decode(value_list[3], allowTrailing)
                 format == from_str(value_list[2])
             IN  IF ~secret.ok THEN Err(Base64DecodeError)
                 ELSE IF ~format.ok THEN Err(format.err)
                 ELSE Ok(SealedVault(secret.val, format.val))
        ELSE Err(MalformedEnvelope)

----------------------------------------------------------------------------
(* The transformation port: the closures a caller passes to seal/unseal *)

\* the closure of tests::can_encrypt, on one character
Rot13(c) ==
    IF (c >= 65 /\ c <= 77) \/ (c >= 97 /\ c <= 109) THEN c + 13
    ELSE IF (c >= 78 /\ c <= 90) \/ (c >= 110 /\ c <= 122) THEN c - 13
    ELSE c

Encryptors == {"rot13", "shift", "fail"}

Decryptors == {"rot13", "unshift", "fail"}

\* the decryptor that undoes an encryptor, if any
Inverse(f) ==
    CASE f = "rot13" -> "rot13"
      [] f = "shift" -> "unshift"
      [] OTHER -> "none"

Encrypt(f, u) ==
    CASE f = "rot13" ->
            Ok(SealedVault([i \in DOMAIN u.plain_secret |->
                                Rot13(u.plain_secret[i])], u.format))
      [] f = "shift" ->
            Ok(SealedVault([i \in DOMAIN u.plain_secret |->
                                (u.plain_secret[i] + 1) % 256], u.format))
      [] f = "fail" -> Err(TransformFailure)

\* String::from_utf8 of the bytes: an error unless all are ASCII
FromUtf8(bytes, format) ==
    IF \A i \in DOMAIN bytes : bytes[i] < 128
    THEN Ok(UnsealedVault(bytes, format))
    ELSE Err(TransformFailure)

Decrypt(g, s) ==
    CASE g = "rot13" ->
            FromUtf8([i \in DOMAIN s.secret |-> Rot13(s.secret[i])], s.format)
      [] g = "unshift" ->
            FromUtf8([i \in DOMAIN s.secret |-> (s.secret[i] + 255) % 256],
                     s.format)
      [] g = "fail" -> Err(TransformFailure)

\* one invocation of a closure: its result and the invocation, recorded
Invoke(ret, f, x, trace) ==
    [result |-> ret, trace |-> Append(trace, [fn |-> f, arg |-> x, ret |-> ret])]

seal_noop(self, f) ==
    Invoke(Ok(SealedVault(self.plain_secret, self.format)), f, self, <<>>)

\* f(self)
seal(self, f) == Invoke(Encrypt(f, self), f, self, <<>>)

unseal_wrap(self, f) ==
    LET r == Invoke(Decrypt(f, self), f, self, <<>>)
    IN  IF r.result.ok THEN r
        ELSE [result |-> Err("Could not unseal"), trace |-> r.trace]

\* f(self)
unseal(self, f) == Invoke(Decrypt(f, self), f, self, <<>>)

\* what the caller holds after an operation returned r
Held(r) == IF r.ok THEN r.val ELSE Failed(r.err)

----------------------------------------------------------------------------
(* The configuration: CulperConfig, its TOML text, the file *)

None == [some |-> FALSE]

Some(v) == [some |-> TRUE, val |-> v]

TargetConfig(id, host) == [id |-> id, host |-> host]

UserConfig(fingerprint, name) == [fingerprint |-> fingerprint, name |-> name]

CulperConfig(targets, owners, admins, me) ==
    [targets |-> targets, owners |-> owners, admins |-> admins, me |-> me]

TargetsHeader ==
    <<"[", "[", "t", "a", "r", "g", "e", "t", "s", "]", "]", "\n">>

OwnersHeader ==
    <<"[", "[", "o", "w", "n", "e", "r", "s", "]", "]", "\n">>

AdminsHeader ==
    <<"[", "[", "a", "d", "m", "i", "n", "s", "]", "]", "\n">>

MeHeader ==
    <<"[", "m", "e", "]", "\n">>

IdKey ==
    <<"i", "d", " ", "=", " ", "\"">>

HostKey ==
    <<"h", "o", "s", "t", " ", "=", " ", "\"">>

FingerprintKey ==
    <<"f", "i", "n", "g", "e", "r", "p", "r", "i", "n", "t", " ", "=",
      " ", "\"">>

NameKey ==
    <<"n", "a", "m", "e", " ", "=", " ", "\"">>

EndOfString ==
    <<"\"", "\n">>

TargetTable(t) ==
    TargetsHeader \o IdKey \o t.id \o EndOfString
        \o HostKey \o t.host \o EndOfString

UserTable(header, u) ==
    header \o FingerprintKey \o u.fingerprint \o EndOfString
        \o NameKey \o u.name \o EndOfString

\* the tables of an Option<Vec<..>>: none for None
TargetTables(opt) ==
    IF opt.some THEN [i \in DOMAIN opt.val |-> TargetTable(opt.val[i])]
    ELSE <<>>

UserTables(header, opt) ==
    IF opt.some THEN [i \in DOMAIN opt.val |-> UserTable(header, opt.val[i])]
    ELSE <<>>

\* tables, a blank line between two
RECURSIVE JoinTables(_)
JoinTables(tables) ==
    IF Len(tables) = 0 THEN <<>>
    ELSE IF Len(tables) = 1 THEN tables[1]
    ELSE tables[1] \o <<"\n">> \o JoinTables(Tail(tables))

\* toml::to_string(&config): the fields in declaration order
ToToml(c) ==
    JoinTables(TargetTables(c.targets) \o UserTables(OwnersHeader, c.owners)
                   \o UserTables(AdminsHeader, c.admins)
                   \o <<UserTable(MeHeader, c.me)>>)

\* what stays of a file's old contents behind `written` bytes
Rest(old, written) == SubSeq(old, written + 1, Len(old))

NoFile == [exists |-> FALSE]

File(bytes) == [exists |-> TRUE, bytes |-> bytes]

StartsWith(text, pos, lit) ==
    /\ pos + Len(lit) - 1 <= Len(text)
    /\ SubSeq(text, pos, pos + Len(lit) - 1) = lit

\* key = "value"\n at pos: the value and the place after the line
ParseKeyValue(text, pos, key) ==
    IF ~StartsWith(text, pos, key) THEN [ok |-> FALSE]
    ELSE LET from == pos + Len(key)
             ends == {i \in from..Len(text) : text[i] = "\""}
         IN  IF ends = {} THEN [ok |-> FALSE]
             ELSE LET q == CHOOSE i \in ends : \A j \in ends : i <= j
                  IN  IF StartsWith(text, q, EndOfString)
                      THEN [ok |-> TRUE, val |-> SubSeq(text, from, q - 1),
                            next |-> q + Len(EndOfString)]
                      ELSE [ok |-> FALSE]

\* a table of two keys at pos
ParseTable(text, pos, header, key1, key2) ==
    IF ~StartsWith(text, pos, header) THEN [ok |-> FALSE]
    ELSE LET a == ParseKeyValue(text, pos + Len(header), key1)
         IN  IF ~a.ok THEN [ok |-> FALSE]
             ELSE LET b == ParseKeyValue(text, a.next, key2)
                  IN  IF ~b.ok THEN [ok |-> FALSE]
                      ELSE [ok |-> TRUE, first |-> a.val, second |-> b.val,
                            next |-> b.next]

\* the tables of one array at pos, each with the blank line after it
RECURSIVE ParseTables(_, _, _, _, _)
ParseTables(text, pos, header, key1, key2) ==
    LET t == ParseTable(text, pos, header, key1, key2)
    IN  IF t.ok /\ StartsWith(text, t.next, <<"\n">>)
        THEN LET more == ParseTables(text, t.next + 1, header, key1, key2)
             IN  [items |-> <<[first |-> t.first, second |-> t.second]>>
                                \o more.items,
                  next |-> more.next]
        ELSE [items |-> <<>>, next |-> pos]

OptionOf(items) == IF Len(items) = 0 THEN None ELSE Some(items)

\* toml::from_str::<CulperConfig>: the results it can give.  A text that
\* ends with the [me] table is that configuration.  What follows the [me]
\* table is read as more of that table: an error (a key again, half a
\* line), or keys the configuration has not, which are ignored.
from_toml(text) ==
    LET ts == ParseTables(text, 1, TargetsHeader, IdKey, HostKey)
        os == ParseTables(text, ts.next, OwnersHeader, FingerprintKey, NameKey)
        as == ParseTables(text, os.next, AdminsHeader, FingerprintKey, NameKey)
        me == ParseTable(text, as.next, MeHeader, FingerprintKey, NameKey)
        users(l) == [i \in DOMAIN l |-> UserConfig(l[i].first, l[i].second)]
        conf ==
            CulperConfig(
                OptionOf([i \in DOMAIN ts.items |->
                    TargetConfig(ts.items[i].first, ts.items[i].second)]),
                OptionOf(users(os.items)), OptionOf(users(as.items)),
                UserConfig(me.first, me.second))
    IN  IF ~me.ok THEN {Err("toml")}
        ELSE IF me.next > Len(text) THEN {Ok(conf)}
        ELSE {Ok(conf), Err("toml")}

----------------------------------------------------------------------------
(* ConfigReader: each operation gives its result and the fields it sets *)

\* ConfigReader::read: the results it can give
read(conf, disk) ==
    IF ~disk.exists
    THEN {[result |-> Err("not found"), config |-> conf]}
    ELSE {[result |-> r, config |-> IF r.ok THEN Some(r.val) ELSE conf] :
            r \in from_toml(disk.bytes)}

add_target_front(conf, host, id) ==
    IF conf.some
    THEN [result |-> Ok("unit"),
          config |-> Some([conf.val EXCEPT !.targets =
              IF conf.val.targets.some
              THEN Some(<<TargetConfig(id, host)>> \o conf.val.targets.val)
              ELSE Some(<<TargetConfig(id, host)>>)])]
    ELSE [result |-> Err("Config is not set."), config |-> conf]

\* ConfigReader::add_target
add_target(conf, host, id) ==
    IF conf.some
    THEN [result |-> Ok("unit"),
          config |-> Some([conf.val EXCEPT !.targets =
              IF conf.val.targets.some
              THEN Some(Append(conf.val.targets.val, TargetConfig(id, host)))
              ELSE Some(<<TargetConfig(id, host)>>)])]
    ELSE [result |-> Err("Config is not set."), config |-> conf]

\* ConfigReader::update
update(conf, new_config) == Some(new_config)

write_open_first(conf, disk) ==
    IF conf.some
    THEN LET data == ToToml(conf.val)
         IN  [result |-> Ok("unit"),
              file |-> IF disk.exists
                       THEN File(data \o Rest(disk.bytes, Len(data)))
                       ELSE File(data)]
    ELSE [result |-> Err("No config available to write."),
          file |-> IF disk.exists THEN disk ELSE File(<<>>)]

\* ConfigReader::write.  The file is opened with write(true).create(true)
\* and neither truncate nor append: the bytes are written from the start
\* of the file, and what the file held beyond them stays.
write(conf, disk) ==
    IF conf.some
    THEN LET data == ToToml(conf.val)
         IN  [result |-> Ok("unit"),
              file |-> IF disk.exists
                       THEN File(data \o Rest(disk.bytes, Len(data)))
                       ELSE File(data)]
    ELSE [result |-> Err("No config available to write."), file |-> disk]

\* create: File::create truncates the file
create(name, fingerprint) ==
    File(ToToml(CulperConfig(None, None, None, UserConfig(fingerprint, name))))

\* the targets of a reader's configuration, none for None
TargetsOf(conf) ==
    IF conf.some /\ conf.val.targets.some THEN conf.val.targets.val
    ELSE <<>>

----------------------------------------------------------------------------
(* The inputs a caller supplies *)

\* ASCII '0', 'a', 'n'
PlainChars == {48, 97, 110}

SecretBytes == {0, 102, 255}

RECURSIVE SeqsUpTo(_, _)
SeqsUpTo(S, n) ==
    IF n = 0 THEN {<<>>}
    ELSE LET shorter == SeqsUpTo(S, n - 1)
         IN  shorter \cup {Append(s, x) : s \in {t \in shorter : Len(t) = n - 1},
                                          x \in S}

FirstFields == {CULPER, <<"c", "u", "l", "p", "e", "r">>,
                <<"N", "O", "T">> \o CULPER}

FormatFields == {GPG_KEY_STR, <<"g", "p", "g", "_", "k", "e", "y">>,
                 <<" ">> \o GPG_KEY_STR, <<"N", "O", "T">>, <<>>}

\* 'Z' 'g' 'h' are morsels 25, 32, 33: "Zg==" is canonical, "Zh==" has
\* trailing bits, '!' is outside the alphabet
PayloadChars == {"Z", "g", "h", "=", "!"}

PayloadFields == SeqsUpTo(PayloadChars, MaxFieldLen)

ExtraFields == {<<>>, <<"Z", "g", "=", "=">>}

InputTexts ==
    FirstFields
      \cup {a \o <<".">> \o b : a \in FirstFields, b \in FormatFields}
      \cup {a \o <<".">> \o b \o <<".">> \o c :
                a \in FirstFields, b \in FormatFields, c \in PayloadFields}
      \cup {a \o <<".">> \o b \o <<".">> \o c \o <<".">> \o d :
                a \in {CULPER}, b \in {GPG_KEY_STR},
                c \in ExtraFields, d \in ExtraFields}
      \cup FormatFields

User1 == UserConfig(<<"1", "2">>, <<"a">>)

User2 == UserConfig(<<"1">>, <<"b", "@", "c">>)

Users == {User1, User2}

Hosts == {<<"h">>}

Ids == {<<"x">>, <<"y", "y">>}

\* the configurations a caller passes to update
UpdateConfigs ==
    {CulperConfig(None, None, None, User1),
     CulperConfig(Some(<<TargetConfig(<<"x">>, <<"h">>)>>),
                  Some(<<User1>>), Some(<<User2>>), User2)}

\* the users a caller passes to create
CreateUsers == {User1}


----------------------------------------------------------------------------
(* The vault as a caller drives it: cur is the value the caller holds *)

\* ConfigReader::new(Some("./culper.toml")), as the tests construct it
DefaultPath == "./culper.toml"

\* ConfigReader::new: no configuration; nothing yet at the path
Init ==
    /\ cur = Nothing
    /\ lastOp = "init"
    /\ arg = Nothing
    /\ fn = "none"
    /\ calls = <<>>
    /\ rendered = Nothing
    /\ origin = Nothing
    /\ viaText = FALSE
    /\ ops = 0
    /\ allowTrailingBits \in BOOLEAN
    /\ path = DefaultPath
    /\ config = None
    /\ file = NoFile
    /\ writes = 0
    /\ confOp = "new"
    /\ confArg = None
    /\ confRes = "Ok"

\* UnsealedVault::new
NewUnsealed ==
    /\ cur.kind = "none"
    /\ \E s \in SeqsUpTo(PlainChars, MaxSecretLen), t \in EncryptionFormat :
        /\ cur' = UnsealedVault(s, t)
        /\ lastOp' = "new_unsealed"
        /\ arg' = Nothing
        /\ fn' = "none"
        /\ calls' = <<>>
        /\ rendered' = Nothing
        /\ origin' = Nothing
        /\ viaText' = FALSE
        /\ UNCHANGED allowTrailingBits
        /\ ops' = 0
        /\ UNCHANGED confVars

\* SealedVault::new
NewSealed ==
    /\ cur.kind = "none"
    /\ \E b \in SeqsUpTo(SecretBytes, MaxSecretLen), t \in EncryptionFormat :
        /\ cur' = SealedVault(b, t)
        /\ lastOp' = "new_sealed"
        /\ arg' = Nothing
        /\ fn' = "none"
        /\ calls' = <<>>
        /\ rendered' = Nothing
        /\ origin' = Nothing
        /\ viaText' = FALSE
        /\ UNCHANGED allowTrailingBits
        /\ ops' = 0
        /\ UNCHANGED confVars

\* a wire text from outside
Input ==
    /\ cur.kind = "none"
    /\ \E t \in InputTexts :
        /\ cur' = Text(t)
        /\ lastOp' = "input"
        /\ arg' = Nothing
        /\ fn' = "none"
        /\ calls' = <<>>
        /\ rendered' = Nothing
        /\ origin' = Nothing
        /\ viaText' = FALSE
        /\ UNCHANGED allowTrailingBits
        /\ ops' = 0
        /\ UNCHANGED confVars

\* a format tag
NewFormat ==
    /\ cur.kind = "none"
    /\ \E t \in EncryptionFormat :
        /\ cur' = Format(t)
        /\ lastOp' = "new_format"
        /\ arg' = Nothing
        /\ fn' = "none"
        /\ calls' = <<>>
        /\ rendered' = Nothing
        /\ origin' = Nothing
        /\ viaText' = FALSE
        /\ UNCHANGED allowTrailingBits
        /\ ops' = 0
        /\ UNCHANGED confVars

\* EncryptionFormat::as_str
AsStr ==
    /\ cur.kind = "format"
    /\ cur' = Text(as_str(cur.format))
    /\ lastOp' = "as_str"
    /\ arg' = cur
    /\ rendered' = cur
    /\ fn' = "none"
    /\ calls' = <<>>
    /\ origin' = Nothing
    /\ viaText' = FALSE
    /\ UNCHANGED allowTrailingBits
    /\ ops < MaxOps
    /\ ops' = ops + 1
    /\ UNCHANGED confVars

\* EncryptionFormat::from_str
FromStr ==
    /\ cur.kind = "text"
    /\ LET r == from_str(cur.text)
       IN  cur' = IF r.ok THEN Format(r.val) ELSE Failed(r.err)
    /\ lastOp' = "from_str"
    /\ arg' = cur
    /\ fn' = "none"
    /\ calls' = <<>>
    /\ origin' = Nothing
    /\ viaText' = FALSE
    /\ UNCHANGED <<rendered, allowTrailingBits>>
    /\ ops < MaxOps
    /\ ops' = ops + 1
    /\ UNCHANGED confVars

\* UnsealedVault::seal
Seal ==
    /\ cur.kind = "unsealed"
    /\ \E f \in Encryptors :
        LET r == seal(cur, f)
        IN  /\ cur' = Held(r.result)
            /\ calls' = r.trace
            /\ fn' = f
            /\ origin' = IF r.result.ok
                         THEN [kind |-> "sealed_by", plain |-> cur, enc |-> f]
                         ELSE Nothing
    /\ lastOp' = "seal"
    /\ arg' = cur
    /\ rendered' = Nothing
    /\ viaText' = FALSE
    /\ UNCHANGED allowTrailingBits
    /\ ops < MaxOps
    /\ ops' = ops + 1
    /\ UNCHANGED confVars

\* SealedVault::unseal
Unseal ==
    /\ cur.kind = "sealed"
    /\ \E g \in Decryptors :
        LET r == unseal(cur, g)
        IN  /\ cur' = Held(r.result)
            /\ calls' = r.trace
            /\ fn' = g
    /\ lastOp' = "unseal"
    /\ arg' = cur
    /\ rendered' = Nothing
    /\ UNCHANGED <<origin, viaText, allowTrailingBits>>
    /\ ops < MaxOps
    /\ ops' = ops + 1
    /\ UNCHANGED confVars

\* SealedVault::to_string
ToString ==
    /\ cur.kind = "sealed"
    /\ cur' = Text(to_string(cur))
    /\ lastOp' = "to_string"
    /\ arg' = cur
    /\ rendered' = cur
    /\ fn' = "none"
    /\ calls' = <<>>
    /\ UNCHANGED <<origin, viaText, allowTrailingBits>>
    /\ ops < MaxOps
    /\ ops' = ops + 1
    /\ UNCHANGED confVars

\* parse
Parse ==
    /\ cur.kind = "text"
    /\ LET r == parse(cur.text, allowTrailingBits)
       IN  /\ cur' = Held(r)
           /\ viaText' = (origin.kind = "sealed_by")
    /\ lastOp' = "parse"
    /\ arg' = cur
    /\ fn' = "none"
    /\ calls' = <<>>
    /\ UNCHANGED <<rendered, origin, allowTrailingBits>>
    /\ ops < MaxOps
    /\ ops' = ops + 1
    /\ UNCHANGED confVars

\* the caller drops what it holds
Drop ==
    /\ cur.kind # "none"
    /\ cur' = Nothing
    /\ lastOp' = "init"
    /\ arg' = Nothing
    /\ fn' = "none"
    /\ calls' = <<>>
    /\ rendered' = Nothing
    /\ origin' = Nothing
    /\ viaText' = FALSE
    /\ UNCHANGED allowTrailingBits
    /\ ops' = 0
    /\ UNCHANGED confVars

Next ==
    \/ Drop
    \/ NewUnsealed
    \/ NewSealed
    \/ Input
    \/ NewFormat
    \/ AsStr
    \/ FromStr
    \/ Seal
    \/ Unseal
    \/ ToString
    \/ Parse

Spec == Init /\ [][Next]_vars

----------------------------------------------------------------------------
(* The configuration reader as a caller drives it: confOp is the last     *)
(* operation, confArg what it was called with, confRes what it returned.  *)

Status(result) == IF result.ok THEN "Ok" ELSE "Err"

\* create(name, fingerprint, path) on the reader's path
Create ==
    /\ writes < MaxWrites
    /\ \E u \in CreateUsers : file' = create(u.name, u.fingerprint)
    /\ writes' = writes + 1
    /\ confOp' = "create"
    /\ confArg' = None
    /\ confRes' = "Ok"
    /\ UNCHANGED <<path, config, vaultVars>>

\* ConfigReader::read
Read ==
    /\ \E o \in read(config, file) :
        /\ config' = o.config
        /\ confRes' = Status(o.result)
    /\ confOp' = "read"
    /\ confArg' = None
    /\ UNCHANGED <<path, file, writes, vaultVars>>

\* ConfigReader::add_target
AddTarget ==
    /\ Len(TargetsOf(config)) < MaxTargets
    /\ \E host \in Hosts, id \in Ids :
        LET o == add_target(config, host, id)
        IN  /\ config' = o.config
            /\ confRes' = Status(o.result)
            /\ confArg' = Some([host |-> host, id |-> id])
    /\ confOp' = "add_target"
    /\ UNCHANGED <<path, file, writes, vaultVars>>

\* ConfigReader::update
Update ==
    /\ \E new_config \in UpdateConfigs : config' = update(config, new_config)
    /\ confOp' = "update"
    /\ confArg' = None
    /\ confRes' = "Ok"
    /\ UNCHANGED <<path, file, writes, vaultVars>>

\* ConfigReader::write
Write ==
    /\ writes < MaxWrites
    /\ LET o == write(config, file)
       IN  /\ file' = o.file
           /\ confRes' = Status(o.result)
           /\ writes' = IF o.result.ok THEN writes + 1 ELSE writes
    /\ confOp' = "write"
    /\ confArg' = None
    /\ UNCHANGED <<path, config, vaultVars>>

NextConfig ==
    \/ Create
    \/ Read
    \/ AddTarget
    \/ Update
    \/ Write

\* the reader alone: the vault idle
InitConfig == Init /\ allowTrailingBits = FALSE

SpecConfig == InitConfig /\ [][NextConfig]_vars

----------------------------------------------------------------------------
(* The claims *)

\* the wire text split at its dots, counted without split
DotCount(text) == Cardinality({i \in DOMAIN text : text[i] = "."})

FirstField(text) ==
    LET dots == {i \in DOMAIN text : text[i] = "."}
    IN  IF dots = {} THEN text
        ELSE SubSeq(text, 1, (CHOOSE i \in dots : \A j \in dots : i <= j) - 1)

Field(text, n) == split(text)[n]

\* a text is standard base64 when it is the encoding of some bytes
ValidBase64(text) ==
    LET r == decode(text, FALSE)
    IN  r.ok /\ encode(r.val) = text

CanonicalTags == {as_str(t) : t \in EncryptionFormat}

EnvelopeOk(text) == DotCount(text) = 2 /\ FirstField(text) = CULPER

\* C1: wire round trip: parse of the to_string of a SealedVault succeeds
\* and gives a SealedVault with the same secret bytes and the same format.
C1_WireRoundTrip ==
    (lastOp = "parse" /\ rendered.kind = "sealed") => cur = rendered

C1_Witness ==
    /\ lastOp = "parse"
    /\ rendered.kind = "sealed"
    /\ rendered.secret = <<255>>
    /\ arg.text = CULPER \o <<".">> \o GPG_KEY_STR
                      \o <<".", "/", "w", "=", "=">>
    /\ cur = rendered

\* C2: a text that has not exactly three '.'-separated fields, or whose
\* first field is not "CULPER", fails to parse with MalformedEnvelope.
C2_MalformedRejected ==
    (lastOp = "parse" /\ ~EnvelopeOk(arg.text))
        => cur = Failed(MalformedEnvelope)

C2_Witness ==
    /\ lastOp = "parse"
    /\ DotCount(arg.text) = 3
    /\ FirstField(arg.text) = CULPER
    /\ Field(arg.text, 2) = GPG_KEY_STR
    /\ ValidBase64(Field(arg.text, 3))
    /\ cur = Failed(MalformedEnvelope)

\* C3 as stated: three fields, the first "CULPER", the second no format
\* tag: parse fails with UnknownFormat whatever the third field is.
C3_UnknownFormatAlways ==
    (/\ lastOp = "parse"
     /\ EnvelopeOk(arg.text)
     /\ Field(arg.text, 2) \notin CanonicalTags)
        => cur = Failed(UnknownFormat)

\* C3 amended: three fields, the first "CULPER", the second no format tag,
\* and a third field the base64 decoder accepts: parse fails with
\* UnknownFormat.
C3_UnknownFormatAfterDecode ==
    (/\ lastOp = "parse"
     /\ EnvelopeOk(arg.text)
     /\ Field(arg.text, 2) \notin CanonicalTags
     /\ decode(Field(arg.text, 3), allowTrailingBits).ok)
        => cur = Failed(UnknownFormat)

C3_Witness ==
    /\ lastOp = "parse"
    /\ EnvelopeOk(arg.text)
    /\ Field(arg.text, 2) = <<"g", "p", "g", "_", "k", "e", "y">>
    /\ Field(arg.text, 3) = <<"Z", "g", "=", "=">>
    /\ cur = Failed(UnknownFormat)

\* C4: three fields, the first "CULPER", and a third field that is not
\* valid standard base64: parse fails with Base64DecodeError.
C4_InvalidBase64Rejected ==
    (/\ lastOp = "parse"
     /\ EnvelopeOk(arg.text)
     /\ ~ValidBase64(Field(arg.text, 3)))
        => cur = Failed(Base64DecodeError)

\* C5: from_str gives tag t exactly for the text as_str(t), so
\* from_str(as_str(t)) = t, and fails with UnknownFormat for every other
\* text.
C5_FormatInverse ==
    /\ lastOp = "from_str" =>
          IF arg.text \in CanonicalTags
          THEN cur.kind = "format" /\ as_str(cur.format) = arg.text
          ELSE cur = Failed(UnknownFormat)
    /\ (lastOp = "from_str" /\ rendered.kind = "format") => cur = rendered

C5_Witness ==
    /\ lastOp = "from_str"
    /\ rendered = Format("GPG_KEY")
    /\ arg.text = GPG_KEY_STR
    /\ cur = rendered

\* C6: seal and unseal invoke the given transform once, with the vault
\* itself, and return what it returned: its Ok value, or its error and no
\* vault.
C6_PassThrough ==
    lastOp \in {"seal", "unseal"} =>
        /\ Len(calls) = 1
        /\ calls[1].fn = fn
        /\ calls[1].arg = arg
        /\ cur = Held(calls[1].ret)
        /\ (fn = "fail" => cur = Failed(TransformFailure))

C6_Witness ==
    /\ lastOp = "unseal"
    /\ fn = "fail"
    /\ arg.kind = "sealed"
    /\ Len(calls) = 1
    /\ cur = Failed(TransformFailure)

\* C7: a vault sealed with an encryptor and unsealed with its inverse has
\* the plaintext and format it was sealed from, also when the sealed vault
\* went through to_string and parse (which then succeeds) in between.
C7_SealUnsealIdentity ==
    /\ (lastOp = "parse" /\ origin.kind = "sealed_by") => cur.kind = "sealed"
    /\ (/\ lastOp = "unseal"
        /\ origin.kind = "sealed_by"
        /\ fn = Inverse(origin.enc)) => cur = origin.plain

C7_Witness ==
    /\ lastOp = "unseal"
    /\ viaText
    /\ origin.kind = "sealed_by"
    /\ origin.enc = "rot13"
    /\ fn = "rot13"
    /\ Len(origin.plain.plain_secret) >= 2
    /\ arg.secret # origin.plain.plain_secret
    /\ cur = origin.plain

\* C8: after a successful write the file holds exactly the TOML text of
\* the reader's configuration, also when it held other, longer contents.
C8_WrittenInFull ==
    (confOp = "write" /\ confRes = "Ok")
        => file = File(ToToml(config.val))

\* C9: add_target on a reader that holds a configuration returns Ok and
\* appends the one target it was given at the end of the targets (a list
\* of one when there were none); the earlier targets, me, owners, admins,
\* the path and the file stay as they were.
C9_AddTargetFrame ==
    [][(confOp' = "add_target" /\ config.some) =>
          /\ confRes' = "Ok"
          /\ config'.some
          /\ config'.val.targets =
                Some(TargetsOf(config)
                        \o <<TargetConfig(confArg'.val.id, confArg'.val.host)>>)
          /\ config'.val.me = config.val.me
          /\ config'.val.owners = config.val.owners
          /\ config'.val.admins = config.val.admins
          /\ path' = path
          /\ file' = file]_vars

C9_Witness ==
    /\ confOp = "add_target"
    /\ confRes = "Ok"
    /\ file.exists
    /\ config.val.owners.some
    /\ TargetsOf(config) =
          <<TargetConfig(<<"x">>, <<"h">>), TargetConfig(<<"y", "y">>, <<"h">>)>>

\* C10: while the configuration is None, add_target and write return an
\* error and change neither the configuration nor the file; only update or
\* a read that succeeds sets it, a read that fails leaves it as it was, and
\* once set it stays set.
C10_NoConfigNoMutation ==
    [][/\ (~config.some /\ confOp' \in {"add_target", "write"}) =>
              (confRes' = "Err" /\ config' = config /\ file' = file)
       /\ (~config.some /\ config'.some) =>
              (confOp' = "update" \/ (confOp' = "read" /\ confRes' = "Ok"))
       /\ (confOp' = "read" /\ confRes' = "Err") => config' = config
       /\ config.some => config'.some]_vars

C10_Witness ==
    /\ ~config.some
    /\ confOp = "write"
    /\ confRes = "Err"
    /\ file.exists

====
